---- MODULE Spec2Model ----
(***************************************************************************)
(* Content intelligence pipeline of the news backend: the per-article      *)
(* analysis state machine (ArticleAnalyzer), feed ingestion (FeedFetcher), *)
(* keyword clustering and topic creation (TopicAnalyzer, SemanticGrouper). *)
(***************************************************************************)
EXTENDS Integers, Sequences, FiniteSets, TLC

\* ------------------------------------------------------------------ bounds
MaxGuid == 3
BatchSize == 2
MaxLimit == 3
MaxClock == 4
MaxArticles == 3
MaxWindow == 2
MaxTopics == 4
MaxGroups == 2
MaxTopicId == 3
MaxHours == 8
MaxWalk == 3
MaxOverCap == 1
MaxGroupSize == 22

\* group_articles(min_group_size=2)
min_group_size == 2

VARIABLES
    articles,   \* committed rows of table articles; index = id, in insertion order
    clock,      \* datetime.utcnow(), one tick per fetch and per analysis run
    pc,         \* position of each analyze_pending call
    sel,        \* pending_articles of the call (ids, most recently fetched first)
    pos,        \* i of the batch loop, 1-based index into sel
    stats,      \* the counters of the call
    loaded,     \* rows of the current batch as the session loaded them
    results,    \* outcome of analyze_batch for the current batch
    raisedBy,   \* the exception that left the call, "none" when none did
    fetched,    \* parsed['entries'] of the last fetch_feed call and what it returned
    reflagged,  \* what the last reanalyze_changed call returned and when it was made
    limits,     \* the limit argument of each run whose caller compares it with the counters
    corpus,     \* the articles cluster_articles reads, in published_at order (newest first)
    clusters,   \* what cluster_articles returned, per similarity threshold
    topics,     \* committed rows of table topics
    links,      \* committed rows of table article_topics
    tpc,        \* position of the create_topics call
    llm,        \* use_llm of the call and LLMClientFactory.is_available()
    grouping,   \* how the semantic grouping request of the call ended
    groups,     \* processed_groups of group_articles, and what it returned
    gread,      \* how many elements of the response's "groups" the loop has read
    tcur,       \* the cluster the fallback loop is at (1-based)
    tsession,   \* topics and links added to the session and not yet committed
    created,    \* created_topics: ids of the topics the call returns
    traised,    \* the exception that left create_topics, "none" when none did
    requests,   \* completion-service requests made for the title and summary of the
                \* set of grouped articles handled last
    ranked      \* what get_top_topics returned

vars == <<articles, clock, pc, sel, pos, stats, loaded, results, raisedBy, fetched, reflagged, limits,
          corpus,
          clusters,
          topics, links, tpc, llm, grouping, groups, gread, tcur, tsession, created, traised,
          requests, ranked>>

\* The variables of the analysis pipeline and those of the topic builder.
avars == <<articles, clock, pc, sel, pos, stats, loaded, results, raisedBy, fetched, reflagged,
           limits>>

\* The variables of a create_topics call.
cvars == <<topics, links, tpc, llm, grouping, groups, gread, tcur, tsession, created, traised,
           requests, ranked>>

tvars == <<corpus, clusters, cvars>>

Runs == {1}

Min(a, b) == IF a <= b THEN a ELSE b

Max(a, b) == IF a >= b THEN a ELSE b

\* ------------------------------------------------------------------ articles
Statuses == {"pending", "processing", "completed", "failed"}

\* What a feed can deliver for one guid: two versions of the text, which differ
\* in title, description and content.
Versions ==
    { [title |-> 1, description |-> 0, content |-> 0],
      [title |-> 2, description |-> 1, content |-> 1] }

\* Guids are opaque: the n-th guid a feed ever delivers is called n.
Entries(known) ==
    { [guid |-> g, title |-> v.title, description |-> v.description, content |-> v.content] :
        g \in 1..Min(known + 1, MaxGuid), v \in Versions }

\* The parsed feeds: one entry, or two entries, the second one of a guid the first
\* one makes known at the latest.
Feeds(known) ==
    { <<e>> : e \in Entries(known) }
    \cup { p \in Entries(known) \X Entries(known + 1) :
             p[2].guid <= Min(Max(known, p[1].guid) + 1, MaxGuid) /\ p[2].guid # p[1].guid }

\* A parsed feed that holds two entries with one guid.
RepeatedFeeds(known) ==
    { p \in Entries(known) \X Entries(known) : p[1].guid = p[2].guid }

\* SHA-256 of "title|description|content": over the texts considered (none holds
\* a '|') a digest that differs when a field differs; None and '' give the same
\* digest (both are 0 here).
compute_content_hash(a) == 1 + a.title * 4 + a.description * 2 + a.content

NewArticle(e) ==
    [ guid |-> e.guid, title |-> e.title, description |-> e.description,
      content |-> e.content, analysis_status |-> "pending", content_hash |-> 0,
      analyzed_at |-> 0, llm_category |-> "none", llm_sentiment |-> "none",
      llm_metadata |-> "none" ]

\* A lookup by guid that finds nothing.
ExistingId_never(arts, guid) == 0

ExistingId(arts, guid) ==
    IF \E i \in 1..Len(arts) : arts[i].guid = guid
    THEN CHOOSE i \in 1..Len(arts) : arts[i].guid = guid
    ELSE 0

UpdateEntry(a, e) ==
    IF a.title # e.title
    THEN [a EXCEPT !.title = e.title, !.description = e.description, !.content = e.content]
    ELSE a

RECURSIVE FetchEntries(_, _)
FetchEntries(arts, entries) ==
    IF entries = <<>> THEN arts
    ELSE LET e == Head(entries)
             x == ExistingId(arts, e.guid)
         IN  FetchEntries(
                 IF x # 0 THEN [arts EXCEPT ![x] = UpdateEntry(arts[x], e)]
                 ELSE Append(arts, NewArticle(e)),
                 Tail(entries))

\* new_count and updated_count of fetch_feed over the same loop.
RECURSIVE FetchCounts(_, _, _)
FetchCounts(arts, entries, counts) ==
    IF entries = <<>> THEN counts
    ELSE LET e == Head(entries)
             x == ExistingId(arts, e.guid)
         IN  FetchCounts(
                 FetchEntries(arts, <<e>>), Tail(entries),
                 IF x = 0 THEN [counts EXCEPT !.new_count = @ + 1]
                 ELSE IF arts[x].title # e.title THEN [counts EXCEPT !.updated_count = @ + 1]
                 ELSE counts)

\* No reanalyze_changed call has returned yet.
NoReflag == [count |-> 0, at |-> -1]

\* No fetch_feed call has returned yet.
NoFetch == [entries |-> <<>>, new_count |-> 0, updated_count |-> 0]

\* ------------------------------------------------------------------ completion service
\* The analysis the k-th element of a response carries: category, sentiment and the
\* metadata lists (entities, topics, key_facts) as one value.
AnalysisAt(k) ==
    IF k % 2 = 1
    THEN [category |-> "Politics", sentiment |-> "neutral", topics |-> "m1"]
    ELSE [category |-> "Sports", sentiment |-> "positive", topics |-> "m2"]

NoEntry == [mapping |-> FALSE, id |-> 0, category |-> "none", sentiment |-> "none", topics |-> "none"]

\* What an element of "analyses" can be for a batch of n articles: a mapping whose
\* id is a batch position 0..n-1 or the id n of no position, or something that is
\* no mapping (-1).
EntryShapes(n) == (0..n) \cup {-1}

MakeEntry(k, shape) ==
    IF shape = -1 THEN NoEntry
    ELSE [mapping |-> TRUE, id |-> shape, category |-> AnalysisAt(k).category,
          sentiment |-> AnalysisAt(k).sentiment, topics |-> AnalysisAt(k).topics]

SeqsUpTo(S, n) == UNION { [1..k -> S] : k \in 0..n }

\* How the request for a batch of n articles ends: LLMClientFactory.create raises
\* for missing credentials when self.client is first read (config_error), the
\* provider raises, the answer is text that is no JSON, JSON that is no mapping, or
\* a mapping whose "analyses" has at most n elements.
Responses(n) ==
    { [kind |-> k, analyses |-> <<>>] :
        k \in {"config_error", "provider_error", "parse_error", "not_mapping"} }
    \cup { [kind |-> "mapping", analyses |-> [k \in 1..Len(s) |-> MakeEntry(k, s[k])]] :
             s \in SeqsUpTo(EntryShapes(n), n) }

ErrorKinds == {"provider_error", "parse_error"}

\* analyze_batch without its try block: a provider error propagates.
analyze_batch_unguarded(resp) ==
    [ raised |-> resp.kind = "provider_error",
      value |-> IF resp.kind = "mapping" THEN resp.analyses ELSE <<>> ]

\* analyze_batch: the request and result.get("analyses", []) sit in one try block
\* whose handler returns [].
analyze_batch(resp) ==
    [ raised |-> FALSE,
      value |-> IF resp.kind = "mapping" THEN resp.analyses ELSE <<>> ]

\* ------------------------------------------------------------------ analyze_pending
ZeroStats == [processed |-> 0, succeeded |-> 0, failed |-> 0, skipped |-> 0]

RECURSIVE PendingDesc(_, _)
PendingDesc(arts, i) ==
    IF i = 0 THEN <<>>
    ELSE (IF arts[i].analysis_status = "pending" THEN <<i>> ELSE <<>>)
         \o PendingDesc(arts, i - 1)

SelectPending(arts, limit) ==
    LET all == PendingDesc(arts, Len(arts))
    IN  SubSeq(all, 1, Min(limit, Len(all)))

\* The slice taken from the start of the list instead of from i.
Batch_from_start(s, i) == SubSeq(s, 1, Min(i + BatchSize - 1, Len(s)))

\* pending_articles[i:i + self.batch_size]
Batch(s, i) == SubSeq(s, i, Min(i + BatchSize - 1, Len(s)))

\* The "for r in results" scan for batch position j (0-based).
RECURSIVE FindResult(_, _, _)
FindResult(rs, k, j) ==
    IF k > Len(rs) THEN [raised |-> FALSE, found |-> FALSE, entry |-> NoEntry]
    ELSE IF ~rs[k].mapping THEN [raised |-> TRUE, found |-> FALSE, entry |-> NoEntry]
    ELSE IF rs[k].id = j THEN [raised |-> FALSE, found |-> TRUE, entry |-> rs[k]]
    ELSE FindResult(rs, k + 1, j)

IsSkip(row) ==
    row.content_hash = compute_content_hash(row) /\ row.analyzed_at # 0

\* One pass of the "Apply results" loop body for the row at batch position j.
ApplyOne(row, j, rs, now) ==
    IF IsSkip(row)
    THEN [row |-> [row EXCEPT !.analysis_status = "completed"], outcome |-> "skipped"]
    ELSE LET f == FindResult(rs, 1, j)
         IN  IF f.raised THEN [row |-> row, outcome |-> "raised"]
             ELSE IF f.found
             THEN [row |-> [row EXCEPT !.llm_category = f.entry.category,
                                       !.llm_sentiment = f.entry.sentiment,
                                       !.llm_metadata = f.entry.topics,
                                       !.content_hash = compute_content_hash(row),
                                       !.analyzed_at = now,
                                       !.analysis_status = "completed"],
                   outcome |-> "succeeded"]
             ELSE [row |-> [row EXCEPT !.analysis_status = "failed"], outcome |-> "failed"]

\* Counters that leave a skipped article out of processed.
Count_without_skipped(st, outcome) ==
    [ processed |-> st.processed + (IF outcome = "skipped" THEN 0 ELSE 1),
      succeeded |-> st.succeeded + (IF outcome = "succeeded" THEN 1 ELSE 0),
      failed |-> st.failed + (IF outcome = "failed" THEN 1 ELSE 0),
      skipped |-> st.skipped + (IF outcome = "skipped" THEN 1 ELSE 0) ]

Count(st, outcome) ==
    [ processed |-> st.processed + 1,
      succeeded |-> st.succeeded + (IF outcome = "succeeded" THEN 1 ELSE 0),
      failed |-> st.failed + (IF outcome = "failed" THEN 1 ELSE 0),
      skipped |-> st.skipped + (IF outcome = "skipped" THEN 1 ELSE 0) ]

\* The whole loop over the batch: rows is the sequence of loaded rows.
RECURSIVE ApplyLoop(_, _, _, _, _)
ApplyLoop(rows, j, rs, now, st) ==
    IF j >= Len(rows) THEN [rows |-> rows, stats |-> st, raised |-> FALSE]
    ELSE LET one == ApplyOne(rows[j + 1], j, rs, now)
         IN  IF one.outcome = "raised"
             THEN [rows |-> rows, stats |-> st, raised |-> TRUE]
             ELSE ApplyLoop([rows EXCEPT ![j + 1] = one.row], j + 1, rs, now,
                            Count(st, one.outcome))

\* A flush that leaves analysis_status out.
Flush_without_status(dbrow, row) ==
    [dbrow EXCEPT !.llm_category = row.llm_category,
                  !.llm_sentiment = row.llm_sentiment,
                  !.llm_metadata = row.llm_metadata,
                  !.content_hash = row.content_hash,
                  !.analyzed_at = row.analyzed_at]

\* The columns the session flushes for a batch row: those analyze_pending assigns.
Flush(dbrow, row) ==
    [dbrow EXCEPT !.analysis_status = row.analysis_status,
                  !.llm_category = row.llm_category,
                  !.llm_sentiment = row.llm_sentiment,
                  !.llm_metadata = row.llm_metadata,
                  !.content_hash = row.content_hash,
                  !.analyzed_at = row.analyzed_at]

PosIn(s, x) == CHOOSE k \in 1..Len(s) : s[k] = x

InSeq(s, x) == \E k \in 1..Len(s) : s[k] = x

CommitBatch(arts, ids, rows) ==
    [ i \in 1..Len(arts) |->
        IF InSeq(ids, i) THEN Flush(arts[i], rows[PosIn(ids, i)]) ELSE arts[i] ]

\* The claim as a conditional update: only rows that are still pending are marked.
MarkBatch_conditional(arts, ids) ==
    [ i \in 1..Len(arts) |->
        IF InSeq(ids, i) /\ arts[i].analysis_status = "pending"
        THEN [arts[i] EXCEPT !.analysis_status = "processing"]
        ELSE arts[i] ]

\* The UPDATE of each batch row by primary key, whatever its status has become.
MarkBatch(arts, ids) ==
    [ i \in 1..Len(arts) |->
        IF InSeq(ids, i) THEN [arts[i] EXCEPT !.analysis_status = "processing"] ELSE arts[i] ]

Idle(r) == pc[r] = "idle"

\* ------------------------------------------------------------------ cluster_articles
\* The words extract_keywords can return for the texts considered.
Words == {"a", "b", "c", "d"}

\* An article as cluster_articles sees it: whether fetched_at lies in the lookback
\* window, and set(extract_keywords(title + description, 15)). The text of an article
\* outside the window is never read.
CorpusEntries ==
    { [recent |-> FALSE, keywords |-> {}] }
    \cup { [recent |-> TRUE, keywords |-> k] : k \in SUBSET Words }

\* similarity_threshold as a fraction <<numerator, denominator>>; 0.25 is the default.
Thresholds == { <<1, 4>>, <<1, 3>>, <<1, 2>> }

\* Jaccard similarity as the fraction <<intersection, union>>; 0.0 is <<0, 1>>.
calculate_similarity(keywords1, keywords2) ==
    IF keywords1 = {} \/ keywords2 = {} THEN <<0, 1>>
    ELSE <<Cardinality(keywords1 \cap keywords2), Cardinality(keywords1 \cup keywords2)>>

\* The comparison turned round.
MeetsThreshold_inverted(similarity, t) == similarity[1] * t[2] <= t[1] * similarity[2]

\* similarity >= similarity_threshold
MeetsThreshold(similarity, t) == similarity[1] * t[2] >= t[1] * similarity[2]

\* No article counts as clustered.
IsClustered_never(clustered_ids, id) == FALSE

\* article.id in clustered_ids
IsClustered(clustered_ids, id) == id \in clustered_ids

\* The query: ids (positions in corpus) of the articles fetched in the window.
RECURSIVE RecentIds(_, _)
RecentIds(corp, i) ==
    IF i > Len(corp) THEN <<>>
    ELSE (IF corp[i].recent THEN <<i>> ELSE <<>>) \o RecentIds(corp, i + 1)

\* "Find similar articles": the inner loop from the k-th article of the query on.
RECURSIVE FindSimilar(_, _, _, _, _, _, _)
FindSimilar(ids, k, cluster, cluster_keywords, clustered_ids, corp, t) ==
    IF k > Len(ids)
    THEN [articles |-> cluster, keywords |-> cluster_keywords, clustered_ids |-> clustered_ids]
    ELSE LET other == ids[k]
         IN  IF IsClustered(clustered_ids, other)
             THEN FindSimilar(ids, k + 1, cluster, cluster_keywords, clustered_ids, corp, t)
             ELSE IF MeetsThreshold(
                        calculate_similarity(cluster_keywords, corp[other].keywords), t)
             THEN FindSimilar(ids, k + 1, Append(cluster, other),
                              cluster_keywords \cup corp[other].keywords,
                              clustered_ids \cup {other}, corp, t)
             ELSE FindSimilar(ids, k + 1, cluster, cluster_keywords, clustered_ids, corp, t)

\* "Cluster articles": the outer loop from the k-th article of the query on.
RECURSIVE ClusterLoop(_, _, _, _, _, _)
ClusterLoop(ids, k, out, clustered_ids, corp, t) ==
    IF k > Len(ids) THEN out
    ELSE IF IsClustered(clustered_ids, ids[k])
    THEN ClusterLoop(ids, k + 1, out, clustered_ids, corp, t)
    ELSE LET c == FindSimilar(ids, 1, <<ids[k]>>, corp[ids[k]].keywords,
                              clustered_ids \cup {ids[k]}, corp, t)
         IN  ClusterLoop(ids, k + 1,
                         Append(out, [articles |-> c.articles, keywords |-> c.keywords]),
                         c.clustered_ids, corp, t)

\* TopicAnalyzer.cluster_articles: the clusters in creation order, each with its
\* articles in the order they were added and its keyword union.
cluster_articles(corp, t) == ClusterLoop(RecentIds(corp, 1), 1, <<>>, {}, corp, t)

\* ------------------------------------------------------------------ create_topics
\* An article as create_topics sees it: CorpusEntries with analysis_status =
\* 'completed' or not, over a smaller vocabulary.
TopicWords == {"a", "b"}

TopicEntries ==
    { [recent |-> FALSE, keywords |-> {}, completed |-> FALSE] }
    \cup { [recent |-> TRUE, keywords |-> k, completed |-> c] :
             k \in SUBSET TopicWords, c \in BOOLEAN }

\* The default similarity_threshold of cluster_articles, 0.25.
DefaultThreshold == <<1, 4>>

\* A topic an earlier call stored, created more than 48 hours ago (old) or not, and
\* its link to article 0, an article older than the corpus.
StoredTopic(old) ==
    [ id |-> 1, old |-> old, title |-> "lead", summary |-> "extract", llm_summary |-> "none",
      article_count |-> 1, category |-> "none", importance_score |-> 50 ]

StoredLink == [article_id |-> 0, topic_id |-> 1, relevance_score |-> 1000]

\* "Clear old topics": the two deletes.
PruneLinks(ls, ts) ==
    SelectSeq(ls, LAMBDA l : ~\E k \in 1..Len(ts) : ts[k].id = l.topic_id /\ ts[k].old)

\* A pruning that deletes the links and leaves the topics.
Prune_keeps_all(ts) == SelectSeq(ts, LAMBDA t : TRUE)

Prune(ts) == SelectSeq(ts, LAMBDA t : ~t.old)

\* The query of group_articles: completed articles fetched in the window.
RECURSIVE CompletedIds(_, _)
CompletedIds(corp, i) ==
    IF i > Len(corp) THEN <<>>
    ELSE (IF corp[i].recent /\ corp[i].completed THEN <<i>> ELSE <<>>)
         \o CompletedIds(corp, i + 1)

\* "article_ids" of a group of the response: ids of the n articles or the id n + 1
\* of no article, repetitions included.
ArticleIdLists(n) == UNION { [1..k -> 1..(n + 1)] : k \in 0..min_group_size }

\* An element of "groups": something that is no mapping, or a mapping with
\* article_ids and with a title, category and importance that the columns of table
\* topics take (storable) or do not take.
GroupShapes(n) ==
    { [mapping |-> FALSE, article_ids |-> <<>>, storable |-> TRUE] }
    \cup { [mapping |-> TRUE, article_ids |-> a, storable |-> st] :
             a \in ArticleIdLists(n), st \in BOOLEAN }

\* [article_map[aid] for aid in article_ids if aid in article_map]
KnownIds(ids, article_ids) == SelectSeq(article_ids, LAMBDA aid : InSeq(ids, aid))

\* The "for group in groups" loop; group.get raises on an element that is no mapping.
RECURSIVE ProcessGroups(_, _)
ProcessGroups(gs, ids) ==
    IF gs = <<>> THEN [raised |-> FALSE, value |-> <<>>]
    ELSE IF ~Head(gs).mapping THEN [raised |-> TRUE, value |-> <<>>]
    ELSE LET kept == KnownIds(ids, Head(gs).article_ids)
             rest == ProcessGroups(Tail(gs), ids)
         IN  IF rest.raised THEN rest
             ELSE [ raised |-> FALSE,
                    value |-> (IF Len(kept) >= min_group_size
                               THEN <<[articles |-> kept,
                                       storable |-> Head(gs).storable]>>
                               ELSE <<>>) \o rest.value ]

\* What "title" and "summary" of a title response can be: missing or falsy, a text,
\* or a value that is no text (a list, a mapping).
FieldShapes == {"none", "text", "illtyped"}

\* The answers of the completion service to a title request.
TitleResponses ==
    { [kind |-> k, title |-> "none", summary |-> "none"] :
        k \in {"provider_error", "parse_error", "not_mapping"} }
    \cup { [kind |-> "mapping", title |-> t, summary |-> u] : t \in FieldShapes, u \in FieldShapes }

\* TopicAnalyzer.generate_topic_title_llm: (None, None) when the service is not
\* available or anything raises, else result.get('title'), result.get('summary').
generate_topic_title_llm(available, resp) ==
    IF ~available \/ resp.kind # "mapping"
    THEN [title |-> "none", summary |-> "none"]
    ELSE [title |-> resp.title, summary |-> resp.summary]

\* TopicAnalyzer.generate_topic_title: a title request of its own, then the lead
\* article's headline.
generate_topic_title(available, resp) ==
    LET llm_title == generate_topic_title_llm(available, resp).title
    IN  IF llm_title # "none" THEN llm_title ELSE "lead"

\* The answers to the title request of create_topics; no request is made, and no
\* answer read, when the service is not available.
FirstResponses(available) ==
    IF available THEN TitleResponses
    ELSE { [kind |-> "provider_error", title |-> "none", summary |-> "none"] }

\* The answers to the title request of generate_topic_title, which is made only
\* when generate_topic_title_llm gave no title.
SecondResponses(available, r1) ==
    IF available /\ generate_topic_title_llm(available, r1).title = "none"
    THEN TitleResponses ELSE {r1}

\* The title requests made for one cluster: none when the service is not available,
\* the one of create_topics, and the one of generate_topic_title when the first gave
\* no title.
TitleRequests(available, r1) ==
    IF ~available THEN 0
    ELSE IF generate_topic_title_llm(available, r1).title = "none" THEN 2 ELSE 1

Storable(v) == v # "illtyped"

NextTopicId(ts, pending) ==
    LET all == ts \o pending
    IN  IF all = <<>> THEN 1
        ELSE 1 + (CHOOSE m \in { all[k].id : k \in 1..Len(all) } :
                      \A k \in 1..Len(all) : all[k].id <= m)

\* The Topic row of the keyword path; importance_score 0.5 is 50.
KeywordTopic(id, cluster, title, summary, llm_summary) ==
    [ id |-> id, old |-> FALSE, title |-> title, summary |-> summary,
      llm_summary |-> llm_summary, article_count |-> Len(cluster.articles),
      category |-> "none", importance_score |-> 50 ]

\* The keyword path linking only the lead article of the cluster.
KeywordLinks_lead_only(id, cluster) ==
    [ i \in 1..1 |->
        [article_id |-> cluster.articles[i], topic_id |-> id, relevance_score |-> 1000] ]

\* relevance_score = 1.0 - i * 0.1, in thousandths.
KeywordLinks(id, cluster) ==
    [ i \in 1..Len(cluster.articles) |->
        [article_id |-> cluster.articles[i], topic_id |-> id,
         relevance_score |-> 1000 - (i - 1) * 100] ]

\* The Topic row of create_topics_from_groups.
GroupTopic(id, group, summary) ==
    [ id |-> id, old |-> FALSE, title |-> "group", summary |-> summary,
      llm_summary |-> summary, article_count |-> Len(group.articles),
      category |-> "group", importance_score |-> 80 ]

\* relevance_score = 1.0 - i * 0.05, in thousandths.
GroupLinks(id, group) ==
    [ i \in 1..Len(group.articles) |->
        [article_id |-> group.articles[i], topic_id |-> id,
         relevance_score |-> 1000 - (i - 1) * 50] ]

RECURSIVE TopicsFromGroups(_, _, _, _)
TopicsFromGroups(gs, k, summaries, id) ==
    IF k > Len(gs) THEN <<>>
    ELSE <<GroupTopic(id, gs[k], summaries[k])>> \o TopicsFromGroups(gs, k + 1, summaries, id + 1)

RECURSIVE LinksFromGroups(_, _, _)
LinksFromGroups(gs, k, id) ==
    IF k > Len(gs) THEN <<>>
    ELSE GroupLinks(id, gs[k]) \o LinksFromGroups(gs, k + 1, id + 1)

\* A table article_topics without the constraint.
ViolatesUnique_never(ls) == FALSE

\* unique_article_topic is violated by the rows ls.
ViolatesUnique(ls) ==
    \E i, j \in 1..Len(ls) :
        i < j /\ ls[i].article_id = ls[j].article_id /\ ls[i].topic_id = ls[j].topic_id

\* ------------------------------------------------------------------ initial state
\* An article that a feed delivered and a run analyzed at time 1.
AnalyzedArticle ==
    ApplyOne([NewArticle([guid |-> 1, title |-> 1, description |-> 0, content |-> 0])
                 EXCEPT !.analysis_status = "processing"],
             0, <<MakeEntry(1, 0)>>, 1).row

NoClusters == [t \in Thresholds |-> [returned |-> FALSE, value |-> <<>>]]

\* The topic builder at rest, with nothing to read.
NoCall ==
    /\ tpc = "idle"
    /\ llm = [use |-> FALSE, available |-> FALSE]
    /\ grouping = "none"
    /\ groups = <<>>
    /\ gread = 0
    /\ tcur = 1
    /\ tsession = [topics |-> <<>>, links |-> <<>>]
    /\ created = <<>>
    /\ traised = "none"
    /\ requests = 0
    /\ ranked = [returned |-> FALSE, topics |-> <<>>]

TopicIdle ==
    /\ corpus = <<>>
    /\ clusters = NoClusters
    /\ topics = <<>>
    /\ links = <<>>
    /\ NoCall

\* The database is empty (time 0), or holds one analyzed article (time 1).
Init ==
    /\ TopicIdle
    /\ \/ articles = <<>> /\ clock = 0
       \/ articles = <<AnalyzedArticle>> /\ clock = 1
    /\ pc = [r \in Runs |-> "idle"]
    /\ sel = [r \in Runs |-> <<>>]
    /\ pos = [r \in Runs |-> 1]
    /\ stats = [r \in Runs |-> ZeroStats]
    /\ loaded = [r \in Runs |-> <<>>]
    /\ results = [r \in Runs |-> [kind |-> "none", analyses |-> <<>>]]
    /\ raisedBy = [r \in Runs |-> "none"]
    /\ fetched = NoFetch
    /\ reflagged = NoReflag
    /\ limits = [r \in DOMAIN pc |-> 0]

runvars == <<pc, sel, pos, stats, loaded, results, raisedBy, limits>>

\* ------------------------------------------------------------------ actions
\* FeedFetcher.fetch_feed: the loop over the parsed entries and the commit. The jobs
\* of the pipeline do not overlap: a feed is fetched while no analysis run is active.
\* feeds is what the parser can deliver; keep says whether the entries and the
\* returned counts stay visible after the call.
FetchFeedFrom(feeds, keep) ==
    /\ \A q \in Runs : Idle(q)
    /\ clock < MaxClock
    /\ \E es \in feeds :
          /\ articles' = FetchEntries(articles, es)
          /\ fetched' = IF keep
                        THEN [entries |-> es]
                             @@ FetchCounts(articles, es, [new_count |-> 0, updated_count |-> 0])
                        ELSE fetched
    /\ clock' = clock + 1
    /\ UNCHANGED <<runvars, tvars, reflagged>>

\* A fetch of the pipeline: fetch_all_active adds the counts to its summary and
\* nothing of the call is kept.
FetchFeed == FetchFeedFrom(Feeds(Len(articles)), FALSE)

\* A direct call of fetch_feed, whose caller reads the counts; the feed can repeat
\* a guid.
FetchCall ==
    FetchFeedFrom(Feeds(Len(articles)) \cup RepeatedFeeds(Len(articles)), TRUE)

\* A count of every completed article the loop visits.
reanalyze_count_visited(arts) ==
    Cardinality({ i \in 1..Len(arts) : arts[i].analysis_status = "completed" })

\* count of reanalyze_changed: one for every completed article the loop flags.
reanalyze_count(arts) ==
    Cardinality({ i \in 1..Len(arts) :
                    /\ arts[i].analysis_status = "completed"
                    /\ arts[i].content_hash # compute_content_hash(arts[i]) })

\* reanalyze_changed without the hash comparison.
reanalyze_changed_unconditional(arts) ==
    [ i \in 1..Len(arts) |->
        IF arts[i].analysis_status = "completed"
        THEN [arts[i] EXCEPT !.analysis_status = "pending"]
        ELSE arts[i] ]

\* ArticleAnalyzer.reanalyze_changed: the rows after its commit.
reanalyze_changed(arts) ==
    [ i \in 1..Len(arts) |->
        IF arts[i].analysis_status = "completed"
           /\ arts[i].content_hash # compute_content_hash(arts[i])
        THEN [arts[i] EXCEPT !.analysis_status = "pending"]
        ELSE arts[i] ]

\* A call of reanalyze_changed; keep says whether the returned count stays visible
\* after the call.
ReanalyzeFrom(keep) ==
    /\ \A q \in Runs : Idle(q)
    /\ articles' = reanalyze_changed(articles)
    /\ reflagged' = IF keep THEN [count |-> reanalyze_count(articles), at |-> clock]
                    ELSE reflagged
    /\ UNCHANGED <<clock, runvars, tvars, fetched>>

\* A call of the pipeline, of which nothing is kept.
ReanalyzeChanged == ReanalyzeFrom(FALSE)

\* A call whose caller reads the count.
ReanalyzeCall == ReanalyzeFrom(TRUE)

\* analyze_pending up to the query: the counters and pending_articles.
BeginRunWith(r, keep) ==
    /\ Idle(r)
    /\ clock < MaxClock
    /\ \E limit \in 1..MaxLimit :
          LET s == SelectPending(articles, limit)
          IN  /\ sel' = [sel EXCEPT ![r] = s]
              /\ pc' = [pc EXCEPT ![r] = IF s = <<>> THEN "returned" ELSE "mark"]
              /\ limits' = [limits EXCEPT ![r] = IF keep THEN limit ELSE 0]
    /\ clock' = clock + 1
    /\ pos' = [pos EXCEPT ![r] = 1]
    /\ stats' = [stats EXCEPT ![r] = ZeroStats]
    /\ loaded' = [loaded EXCEPT ![r] = <<>>]
    /\ results' = [results EXCEPT ![r] = [kind |-> "none", analyses |-> <<>>]]
    /\ raisedBy' = [raisedBy EXCEPT ![r] = "none"]
    /\ UNCHANGED <<articles, tvars, fetched, reflagged>>

BeginRun(r) == BeginRunWith(r, FALSE)

\* A run of the pipeline as spec section 5 has it: no other run is active.
StartRun(r) ==
    /\ \A q \in Runs : Idle(q)
    /\ BeginRun(r)

\* "Mark as processing" and its commit; a commit that fails raises to the caller
\* and the session's pending writes are discarded.
MarkProcessing(r) ==
    /\ pc[r] = "mark"
    /\ \E ok \in BOOLEAN :
          IF ok
          THEN /\ articles' = MarkBatch(articles, Batch(sel[r], pos[r]))
               /\ pc' = [pc EXCEPT ![r] = "call"]
               /\ UNCHANGED raisedBy
          ELSE /\ pc' = [pc EXCEPT ![r] = "raised"]
               /\ raisedBy' = [raisedBy EXCEPT ![r] = "PersistenceError"]
               /\ UNCHANGED articles
    /\ UNCHANGED <<clock, sel, pos, stats, loaded, results, tvars, fetched, reflagged, limits>>

\* analyze_batch: the expired rows are reloaded when the request is built, then the
\* completion service answers.
CallLLM(r) ==
    /\ pc[r] = "call"
    /\ \E resp \in Responses(Len(Batch(sel[r], pos[r]))) :
          LET out == analyze_batch(resp)
          IN  /\ results' = [results EXCEPT ![r] = [kind |-> resp.kind, analyses |-> out.value]]
              /\ pc' = [pc EXCEPT ![r] = IF out.raised THEN "raised" ELSE "apply"]
              /\ raisedBy' = [raisedBy EXCEPT ![r] = IF out.raised THEN "ProviderError" ELSE "none"]
    /\ loaded' = [loaded EXCEPT ![r] =
                    [k \in 1..Len(Batch(sel[r], pos[r])) |-> articles[Batch(sel[r], pos[r])[k]]]]
    /\ UNCHANGED <<articles, clock, sel, pos, stats, tvars, fetched, reflagged, limits>>

\* "Apply results" and the batch's commit.
ApplyResults(r) ==
    /\ pc[r] = "apply"
    /\ LET ids == Batch(sel[r], pos[r])
           out == ApplyLoop(loaded[r], 0, results[r].analyses, clock, stats[r])
           next == pos[r] + BatchSize
       IN  IF out.raised
           THEN /\ pc' = [pc EXCEPT ![r] = "raised"]
                /\ raisedBy' = [raisedBy EXCEPT ![r] = "AttributeError"]
                /\ UNCHANGED <<articles, pos, stats>>
           ELSE \E ok \in BOOLEAN :
                  IF ok
                  THEN /\ articles' = CommitBatch(articles, ids, out.rows)
                       /\ stats' = [stats EXCEPT ![r] = out.stats]
                       /\ pos' = [pos EXCEPT ![r] = next]
                       /\ pc' = [pc EXCEPT ![r] =
                                   IF next > Len(sel[r]) THEN "returned" ELSE "mark"]
                       /\ UNCHANGED raisedBy
                  ELSE /\ pc' = [pc EXCEPT ![r] = "raised"]
                       /\ raisedBy' = [raisedBy EXCEPT ![r] = "PersistenceError"]
                       /\ UNCHANGED <<articles, pos, stats>>
    /\ results' = [results EXCEPT ![r].analyses = <<>>]
    /\ loaded' = [loaded EXCEPT ![r] = <<>>]
    /\ UNCHANGED <<clock, sel, tvars, fetched, reflagged, limits>>

\* The caller takes the counters or the exception; the request's session is removed.
Finish(r) ==
    /\ pc[r] \in {"returned", "raised"}
    /\ pc' = [pc EXCEPT ![r] = "idle"]
    /\ sel' = [sel EXCEPT ![r] = <<>>]
    /\ pos' = [pos EXCEPT ![r] = 1]
    /\ stats' = [stats EXCEPT ![r] = ZeroStats]
    /\ loaded' = [loaded EXCEPT ![r] = <<>>]
    /\ results' = [results EXCEPT ![r] = [kind |-> "none", analyses |-> <<>>]]
    /\ raisedBy' = [raisedBy EXCEPT ![r] = "none"]
    /\ limits' = [limits EXCEPT ![r] = 0]
    /\ UNCHANGED <<articles, clock, tvars, fetched, reflagged>>

\* A call of cluster_articles with one of the thresholds.
ClusterArticles ==
    /\ \E t \in Thresholds :
          /\ ~clusters[t].returned
          /\ clusters' = [clusters EXCEPT ![t] =
                            [returned |-> TRUE, value |-> cluster_articles(corpus, t)]]
    /\ UNCHANGED <<avars, corpus, cvars>>

Next ==
    \/ FetchFeed
    \/ ReanalyzeChanged
    \/ \E r \in Runs : StartRun(r)
    \/ \E r \in Runs : MarkProcessing(r)
    \/ \E r \in Runs : CallLLM(r)
    \/ \E r \in Runs : ApplyResults(r)
    \/ \E r \in Runs : Finish(r)

Spec == Init /\ [][Next]_vars

\* The pipeline as the application runs it: fetch_job / the fetch routes, and
\* analyze_job / trigger_analysis, which call analyze_pending. No caller of
\* reanalyze_changed exists in the application.
PipelineNext ==
    \/ FetchFeed
    \/ \E r \in Runs : StartRun(r)
    \/ \E r \in Runs : MarkProcessing(r)
    \/ \E r \in Runs : CallLLM(r)
    \/ \E r \in Runs : ApplyResults(r)
    \/ \E r \in Runs : Finish(r)

PipelineSpec == Init /\ [][PipelineNext]_vars

\* Two callers of analyze_pending, the scheduled analyze_job and a trigger_analysis
\* request, each with its own session; nothing keeps their runs apart.
Jobs == {1, 2}

ConcurrentInit ==
    /\ TopicIdle
    /\ \E es \in Feeds(0) : articles = FetchEntries(<<>>, es)
    /\ clock = 1
    /\ pc = [r \in Jobs |-> "idle"]
    /\ sel = [r \in Jobs |-> <<>>]
    /\ pos = [r \in Jobs |-> 1]
    /\ stats = [r \in Jobs |-> ZeroStats]
    /\ loaded = [r \in Jobs |-> <<>>]
    /\ results = [r \in Jobs |-> [kind |-> "none", analyses |-> <<>>]]
    /\ raisedBy = [r \in Jobs |-> "none"]
    /\ fetched = NoFetch
    /\ reflagged = NoReflag
    /\ limits = [r \in DOMAIN pc |-> 0]

ConcurrentNext ==
    \/ \E r \in Jobs : BeginRun(r)
    \/ \E r \in Jobs : MarkProcessing(r)
    \/ \E r \in Jobs : CallLLM(r)
    \/ \E r \in Jobs : ApplyResults(r)
    \/ \E r \in Jobs : Finish(r)

ConcurrentSpec == ConcurrentInit /\ [][ConcurrentNext]_vars

\* create_topics up to the commit of "Clear old topics"; called by analyze_job,
\* trigger_analysis and analyze_topics, or by refresh_topics after its deletes.
StartCreateTopics ==
    /\ tpc \in {"idle", "refresh"}
    /\ \E use \in BOOLEAN, available \in BOOLEAN :
          /\ llm' = [use |-> use, available |-> available]
          /\ tpc' = IF use /\ available THEN "group" ELSE "cluster"
    /\ topics' = Prune(topics)
    /\ links' = PruneLinks(links, topics)
    /\ UNCHANGED <<avars, corpus, clusters, grouping, groups, gread, tcur, tsession, created,
                   traised, requests, ranked>>

\* How the grouping request ends: the client raises, the answer is no JSON ({} is
\* parsed), the JSON is no mapping, or it is a mapping.
GroupingKinds == {"provider_error", "parse_error", "not_mapping", "mapping"}

\* grouper.group_articles(hours) up to result.get("groups"): no request for fewer
\* than min_group_size completed articles, else the request. Only a mapping has
\* groups to read.
GroupArticles ==
    /\ tpc = "group"
    /\ IF Len(CompletedIds(corpus, 1)) < min_group_size
       THEN /\ grouping' = "too_few"
            /\ tpc' = "cluster"
       ELSE \E kind \in GroupingKinds :
              /\ grouping' = kind
              /\ tpc' = IF kind = "mapping" THEN "read" ELSE "cluster"
    /\ groups' = <<>>
    /\ gread' = 0
    /\ UNCHANGED <<avars, corpus, clusters, topics, links, llm, tcur, tsession, created, traised,
                   requests, ranked>>

\* "for group in groups": the list ends and group_articles returns processed_groups,
\* or the loop reads one more element. An element that is no mapping raises into the
\* handler of group_articles, which returns []. shapes is what the service can put
\* in the list.
ReadGroupFrom(shapes) ==
    /\ tpc = "read"
    /\ \/ /\ grouping' = IF groups = <<>> THEN "no_groups" ELSE "groups"
          /\ tpc' = IF groups = <<>> THEN "cluster" ELSE "from_groups"
          /\ UNCHANGED <<groups, gread>>
       \/ /\ gread < MaxGroups
          /\ \E group \in shapes :
                LET out == ProcessGroups(<<group>>, CompletedIds(corpus, 1))
                IN  IF out.raised
                    THEN /\ groups' = <<>>
                         /\ grouping' = "no_groups"
                         /\ tpc' = "cluster"
                    ELSE /\ groups' = groups \o out.value
                         /\ UNCHANGED <<grouping, tpc>>
          /\ gread' = gread + 1
    /\ UNCHANGED <<avars, corpus, clusters, topics, links, llm, tcur, tsession, created, traised,
                   requests, ranked>>

ReadGroup == ReadGroupFrom(GroupShapes(Len(corpus)))

\* grouper.create_topics_from_groups(groups): a summary per group (the service's, or
\* the extractive one when the request fails), the rows, the commit. A flush or
\* commit that fails raises into the try block of create_topics, whose handler goes
\* on to the fallback; the query of cluster_articles then raises on the session,
\* which was not rolled back.
CreateFromGroups ==
    /\ tpc = "from_groups"
    /\ \E summaries \in [1..Len(groups) -> {"llm", "extract"}] :
          LET id == NextTopicId(topics, <<>>)
              ts == TopicsFromGroups(groups, 1, summaries, id)
              ls == LinksFromGroups(groups, 1, id)
          IN  IF (\A k \in 1..Len(groups) : groups[k].storable) /\ ~ViolatesUnique(ls)
              THEN /\ topics' = topics \o ts
                   /\ links' = links \o ls
                   /\ created' = [k \in 1..Len(ts) |-> ts[k].id]
                   /\ tpc' = "returned"
                   /\ UNCHANGED traised
              ELSE /\ tpc' = "raised"
                   /\ traised' = "PendingRollbackError"
                   /\ UNCHANGED <<topics, links, created>>
    /\ requests' = 1
    /\ UNCHANGED <<avars, corpus, clusters, llm, grouping, groups, gread, tcur, tsession, ranked>>

\* "Fallback to keyword-based clustering": the call of cluster_articles; without
\* clusters the loop is empty and [] is returned.
ClusterStep ==
    /\ tpc = "cluster"
    /\ LET cs == cluster_articles(corpus, DefaultThreshold)
       IN  /\ clusters' = [clusters EXCEPT ![DefaultThreshold] =
                             [returned |-> TRUE, value |-> cs]]
           /\ tpc' = IF cs = <<>> THEN "returned" ELSE "fallback"
    /\ tcur' = 1
    /\ UNCHANGED <<avars, corpus, topics, links, llm, grouping, groups, gread, tsession, created,
                   traised, requests, ranked>>

\* One pass of "for cluster_data in clusters": the title request(s), the Topic row
\* and its flush, the links; after the last cluster, the commit. A title or summary
\* the column does not take makes the flush raise, and the exception leaves
\* create_topics.
FallbackTopic ==
    /\ tpc = "fallback"
    /\ \E r1 \in FirstResponses(llm.available) : \E r2 \in SecondResponses(llm.available, r1) :
          /\ LET cs == clusters[DefaultThreshold].value
                 first == generate_topic_title_llm(llm.available, r1)
                 title == IF first.title # "none" THEN first.title
                          ELSE generate_topic_title(llm.available, r2)
                 summary == IF first.summary # "none" THEN first.summary ELSE "extract"
                 id == NextTopicId(topics, tsession.topics)
                 ses == [ topics |-> Append(tsession.topics,
                                            KeywordTopic(id, cs[tcur], title, summary, first.summary)),
                          links |-> tsession.links \o KeywordLinks(id, cs[tcur]) ]
             IN  IF Storable(title) /\ Storable(summary)
                 THEN /\ created' = Append(created, id)
                      /\ UNCHANGED traised
                      /\ IF tcur = Len(cs)
                         THEN /\ topics' = topics \o ses.topics
                              /\ links' = links \o ses.links
                              /\ tsession' = [topics |-> <<>>, links |-> <<>>]
                              /\ tpc' = "returned"
                              /\ UNCHANGED tcur
                         ELSE /\ tsession' = ses
                              /\ tcur' = tcur + 1
                              /\ UNCHANGED <<topics, links, tpc>>
                 ELSE /\ tpc' = "raised"
                      /\ traised' = "InterfaceError"
                      /\ tsession' = [topics |-> <<>>, links |-> <<>>]
                      /\ UNCHANGED <<topics, links, tcur, created>>
          /\ requests' = TitleRequests(llm.available, r1)
    /\ UNCHANGED <<avars, corpus, clusters, llm, grouping, groups, gread, ranked>>

\* The analysis pipeline at rest on an empty database.
AnalysisIdle ==
    /\ articles = <<>> /\ clock = 0
    /\ pc = [r \in Runs |-> "idle"]
    /\ sel = [r \in Runs |-> <<>>]
    /\ pos = [r \in Runs |-> 1]
    /\ stats = [r \in Runs |-> ZeroStats]
    /\ loaded = [r \in Runs |-> <<>>]
    /\ results = [r \in Runs |-> [kind |-> "none", analyses |-> <<>>]]
    /\ raisedBy = [r \in Runs |-> "none"]
    /\ fetched = NoFetch
    /\ reflagged = NoReflag
    /\ limits = [r \in DOMAIN pc |-> 0]

\* cluster_articles as a function of its inputs: the articles in published_at order
\* and the threshold.
ClusterInit ==
    /\ AnalysisIdle
    /\ corpus \in SeqsUpTo(CorpusEntries, MaxArticles)
    /\ clusters = NoClusters
    /\ topics = <<>>
    /\ links = <<>>
    /\ NoCall

ClusterNext == ClusterArticles

ClusterSpec == ClusterInit /\ [][ClusterNext]_vars

\* A create_topics call as a function of the articles in the window, the stored
\* topics and the answers of the completion service.
TopicInit ==
    /\ AnalysisIdle
    /\ corpus \in SeqsUpTo(TopicEntries, MaxWindow)
    /\ clusters = NoClusters
    /\ \/ topics = <<>> /\ links = <<>>
       \/ \E old \in BOOLEAN : topics = <<StoredTopic(old)>> /\ links = <<StoredLink>>
    /\ NoCall

TopicNext ==
    \/ StartCreateTopics
    \/ GroupArticles
    \/ ReadGroup
    \/ CreateFromGroups
    \/ ClusterStep
    \/ FallbackTopic

TopicSpec == TopicInit /\ [][TopicNext]_vars

\* The article of entry e after a run analyzed it at time 1.
AnalyzedRow(e) ==
    ApplyOne([NewArticle(e) EXCEPT !.analysis_status = "processing"],
             0, <<MakeEntry(1, 0)>>, 1).row

FeedEntry(g, v) ==
    [guid |-> g, title |-> v.title, description |-> v.description, content |-> v.content]

\* The rows the pipeline can leave for guid g: an article never analyzed that is
\* pending, processing (its run was aborted) or failed, or an article analyzed in
\* version v whose text is now version w, in any status but completed-from-nothing.
ReanalyzeRows(g) ==
    { [NewArticle(FeedEntry(g, w)) EXCEPT !.analysis_status = st] :
        w \in Versions, st \in Statuses \ {"completed"} }
    \cup { [UpdateEntry(AnalyzedRow(FeedEntry(g, v)), FeedEntry(g, w))
               EXCEPT !.analysis_status = st] :
             v \in Versions, w \in Versions, st \in Statuses }

\* reanalyze_changed called, and called again, on such rows.
ReanalyzeInit ==
    /\ TopicIdle
    /\ \E n \in 0..BatchSize :
          articles \in { f \in [1..n -> UNION { ReanalyzeRows(g) : g \in 1..n }] :
                           \A i \in 1..n : f[i].guid = i }
    /\ clock = 1
    /\ pc = [r \in Runs |-> "idle"]
    /\ sel = [r \in Runs |-> <<>>]
    /\ pos = [r \in Runs |-> 1]
    /\ stats = [r \in Runs |-> ZeroStats]
    /\ loaded = [r \in Runs |-> <<>>]
    /\ results = [r \in Runs |-> [kind |-> "none", analyses |-> <<>>]]
    /\ raisedBy = [r \in Runs |-> "none"]
    /\ fetched = NoFetch
    /\ reflagged = NoReflag
    /\ limits = [r \in DOMAIN pc |-> 0]

ReanalyzeNext == ReanalyzeCall

ReanalyzeSpec == ReanalyzeInit /\ [][ReanalyzeNext]_vars

\* analyze_pending called by a caller that compares the counters with the limit it
\* passed, one run after the other, on tables of up to MaxArticles such rows: the
\* pending ones, and the completed ones whose text is the analyzed one, all holding
\* the first version of the text now. The clock leaves room for two runs.
CounterRows(g) ==
    { row \in ReanalyzeRows(g) :
        /\ row.title = 1
        /\ \/ row.analysis_status = "pending"
           \/ row.analysis_status = "completed" /\ IsSkip(row) }

StartCountedRun(r) ==
    /\ \A q \in Runs : Idle(q)
    /\ BeginRunWith(r, TRUE)

CounterInit ==
    /\ TopicIdle
    /\ \E n \in 0..MaxArticles :
          articles \in { f \in [1..n -> UNION { CounterRows(g) : g \in 1..n }] :
                           \A i \in 1..n : f[i].guid = i }
    /\ clock = MaxClock - 2
    /\ pc = [r \in Runs |-> "idle"]
    /\ sel = [r \in Runs |-> <<>>]
    /\ pos = [r \in Runs |-> 1]
    /\ stats = [r \in Runs |-> ZeroStats]
    /\ loaded = [r \in Runs |-> <<>>]
    /\ results = [r \in Runs |-> [kind |-> "none", analyses |-> <<>>]]
    /\ raisedBy = [r \in Runs |-> "none"]
    /\ fetched = NoFetch
    /\ reflagged = NoReflag
    /\ limits = [r \in Runs |-> 0]

CounterNext ==
    \/ \E r \in Runs : StartCountedRun(r)
    \/ \E r \in Runs : MarkProcessing(r)
    \/ \E r \in Runs : CallLLM(r)
    \/ \E r \in Runs : ApplyResults(r)
    \/ \E r \in Runs : Finish(r)

CounterSpec == CounterInit /\ [][CounterNext]_vars

\* The periodic jobs with a completion service that answers every request
\* completely and commits that succeed: fetch_job delivers an article of a guid not
\* stored, analyze_pending is called with limit 1. A completed article is never
\* selected again (the query takes status pending, and nothing calls
\* reanalyze_changed), so the table is kept finite by leaving the completed
\* articles out once a run is over; when no timestamp is left, time starts anew.
ArriveNew ==
    /\ Len(articles) < MaxArticles
    /\ FetchFeedFrom({ <<e>> : e \in { x \in Entries(MaxGuid) :
                                          ExistingId(articles, x.guid) = 0 } }, FALSE)

StartJob(r) ==
    /\ \A q \in Runs : Idle(q)
    /\ BeginRunWith(r, TRUE)
    /\ limits'[r] = 1

MarkCommitted(r) == MarkProcessing(r) /\ pc'[r] = "call"

AnswerComplete(r) ==
    /\ CallLLM(r)
    /\ pc'[r] = "apply"
    /\ \A j \in 0..(Len(Batch(sel[r], pos[r])) - 1) :
          FindResult(results'[r].analyses, 1, j).found

ApplyCommitted(r) == ApplyResults(r) /\ pc'[r] \in {"mark", "returned"}

LeaveOutCompleted ==
    /\ \A q \in Runs : Idle(q)
    /\ clock > 0
    /\ LET rest == SelectSeq(articles, LAMBDA a : a.analysis_status # "completed")
       IN  /\ \A k \in 1..Len(rest) : rest[k].analyzed_at = 0
           /\ articles' = rest
    /\ clock' = 0
    /\ UNCHANGED <<runvars, tvars, fetched, reflagged>>

PeriodicInit ==
    /\ TopicIdle
    /\ AnalysisIdle

PeriodicNext ==
    \/ ArriveNew
    \/ \E r \in Runs : StartJob(r)
    \/ \E r \in Runs : MarkCommitted(r)
    \/ \E r \in Runs : AnswerComplete(r)
    \/ \E r \in Runs : ApplyCommitted(r)
    \/ \E r \in Runs : Finish(r)
    \/ LeaveOutCompleted

\* analyze_job comes round again and again (IntervalTrigger), and a run that has
\* started goes on to its end; nothing obliges a feed to deliver new articles.
PeriodicSpec ==
    /\ PeriodicInit
    /\ [][PeriodicNext]_vars
    /\ WF_vars(\E r \in Runs : StartJob(r))
    /\ WF_vars(\E r \in Runs : MarkCommitted(r))
    /\ WF_vars(\E r \in Runs : AnswerComplete(r))
    /\ WF_vars(\E r \in Runs : ApplyCommitted(r))
    /\ WF_vars(\E r \in Runs : Finish(r))
    /\ WF_vars(LeaveOutCompleted)

\* fetch_feed called again and again on a database that starts empty.
FetchInit == TopicIdle /\ AnalysisIdle

FetchNext == FetchCall

FetchSpec == FetchInit /\ [][FetchNext]_vars

\* ------------------------------------------------------------------ topic lifecycle
\* refresh_topics up to its commit: every link and every topic is deleted; the
\* call of create_topics follows.
RefreshTopics ==
    /\ tpc = "idle"
    /\ topics' = <<>>
    /\ links' = <<>>
    /\ tpc' = "refresh"
    /\ UNCHANGED <<avars, corpus, clusters, llm, grouping, groups, gread, tcur, tsession, created,
                   traised, requests, ranked>>

\* The caller takes the topics or the exception of create_topics; the request's
\* session is removed, and what it had not committed with it.
ReturnTopics ==
    /\ tpc \in {"returned", "raised"}
    /\ clusters' = NoClusters
    /\ tpc' = "idle"
    /\ llm' = [use |-> FALSE, available |-> FALSE]
    /\ grouping' = "none"
    /\ groups' = <<>>
    /\ gread' = 0
    /\ tcur' = 1
    /\ tsession' = [topics |-> <<>>, links |-> <<>>]
    /\ created' = <<>>
    /\ traised' = "none"
    /\ requests' = 0
    /\ UNCHANGED <<avars, corpus, topics, links, ranked>>

\* Time passes between two calls: the topics created up to some moment are now
\* older than 48 hours.
TopicsAge ==
    /\ tpc = "idle"
    /\ \E k \in 1..Len(topics) :
          /\ ~topics[k].old
          /\ topics' = [ i \in 1..Len(topics) |->
                          IF i <= k THEN [topics[i] EXCEPT !.old = TRUE] ELSE topics[i] ]
    /\ UNCHANGED <<avars, corpus, clusters, links, tpc, llm, grouping, groups, gread, tcur,
                   tsession, created, traised, requests, ranked>>

\* The articles of the window in the life of the topics: two analyzed ones (the
\* fewest group_articles sends to the service) that share their keyword, so that
\* the keyword path makes one topic of the two.
LifecycleEntries ==
    { e \in TopicEntries : e.recent /\ e.completed /\ e.keywords = {"a"} }

\* The elements of "groups" in the life of the topics: those whose title, category
\* and importance the columns take.
LifecycleShapes == { g \in GroupShapes(Len(corpus)) : g.storable }

LifecycleInit ==
    /\ AnalysisIdle
    /\ \E e1 \in LifecycleEntries : \E e2 \in LifecycleEntries : corpus = <<e1, e2>>
    /\ clusters = NoClusters
    /\ \/ topics = <<>> /\ links = <<>>
       \/ \E old \in BOOLEAN : topics = <<StoredTopic(old)>> /\ links = <<StoredLink>>
    /\ NoCall

\* Calls of create_topics and refresh_topics, one after the other, while the id the
\* next topic gets is at most MaxTopicId.
LifecycleNext ==
    \/ NextTopicId(topics, <<>>) <= MaxTopicId /\ StartCreateTopics
    \/ GroupArticles
    \/ ReadGroupFrom(LifecycleShapes)
    \/ CreateFromGroups
    \/ ClusterStep
    \/ FallbackTopic
    \/ ReturnTopics
    \/ RefreshTopics
    \/ TopicsAge

LifecycleSpec == LifecycleInit /\ [][LifecycleNext]_vars

\* The links of one topic as a function of the size of its cluster or group: the
\* window holds up to MaxGroupSize analyzed articles that share their keyword, so
\* cluster_articles makes one cluster of them, and the service names them all in
\* one group.
LinkInit ==
    /\ AnalysisIdle
    /\ \E n \in 1..MaxGroupSize : \E e \in LifecycleEntries : corpus = [ i \in 1..n |-> e ]
    /\ clusters = NoClusters
    /\ topics = <<>>
    /\ links = <<>>
    /\ NoCall

\* "Link articles to topic" of create_topics for the cluster.
LinkCluster ==
    /\ links = <<>>
    /\ \E id \in 1..MaxTopicId :
          links' = KeywordLinks(id, cluster_articles(corpus, DefaultThreshold)[1])
    /\ UNCHANGED <<avars, corpus, clusters, topics, tpc, llm, grouping, groups, gread, tcur,
                   tsession, created, traised, requests, ranked>>

\* "Link articles to topic" of create_topics_from_groups for the group.
LinkGroup ==
    /\ links = <<>>
    /\ LET ids == CompletedIds(corpus, 1)
           gs == ProcessGroups(<<[mapping |-> TRUE, article_ids |-> ids, storable |-> TRUE]>>,
                               ids).value
       IN  /\ gs # <<>>
           /\ \E id \in 1..MaxTopicId : links' = LinksFromGroups(gs, 1, id)
    /\ UNCHANGED <<avars, corpus, clusters, topics, tpc, llm, grouping, groups, gread, tcur,
                   tsession, created, traised, requests, ranked>>

LinkNext == LinkCluster \/ LinkGroup

LinkSpec == LinkInit /\ [][LinkNext]_vars

\* ------------------------------------------------------------------ get_top_topics
TOP_STORIES_LIMIT == 15

MAX_PER_CATEGORY == 15

\* Topic.query ... .limit(100)
CandidateLimit == 100

\* A row of table topics as get_top_topics reads it. importance_score is in
\* hundredths, or Unset for NULL: 0 is a stored 0.0, 300 an "importance" of 3.0 that
\* create_topics_from_groups stored as the grouping response gave it. hours_old is
\* now - updated_at in hours; routine is the number of ROUTINE_KEYWORDS found in the
\* title or the keywords.
Unset == -1

RankShapes ==
    [ category : {"none", "World"}, importance_score : {0, 300},
      article_count : {1, 2}, routine : {0, 7} ]

RankRow(id, shape, hours_old) ==
    [ id |-> id, category |-> shape.category, importance_score |-> shape.importance_score,
      article_count |-> shape.article_count, routine |-> shape.routine,
      hours_old |-> hours_old ]

\* The candidates: article_count >= 1, most recently updated first (the table is in
\* insertion order), at most 100.
RECURSIVE Reverse(_)
Reverse(q) == IF q = <<>> THEN <<>> ELSE Append(Reverse(Tail(q)), Head(q))

Candidates(ts) ==
    LET rows == Reverse(SelectSeq(ts, LAMBDA t : t.article_count >= 1))
    IN  SubSeq(rows, 1, Min(CandidateLimit, Len(rows)))

\* max(t.article_count for t in candidates) or 1
MaxArticleCount(cands) ==
    LET m == CHOOSE n \in { cands[k].article_count : k \in 1..Len(cands) } :
                 \A k \in 1..Len(cands) : cands[k].article_count <= n
    IN  IF m = 0 THEN 1 ELSE m

CategoryOf(topic) == IF topic.category = "none" THEN "General" ELSE topic.category

NoCounts(cands) == [ c \in { CategoryOf(cands[k]) : k \in 1..Len(cands) } |-> 0 ]

\* "1. Importance score": topic.importance_score if topic.importance_score else 0.5,
\* in hundredths. None and 0.0 are both falsy.
importance(topic) ==
    IF topic.importance_score # Unset /\ topic.importance_score # 0
    THEN topic.importance_score ELSE 50

\* "2. Recency score" in 1/4800: updated_at >= six_hours_ago is hours_old <= 6.
recency(topic) ==
    IF topic.hours_old <= 6
    THEN 4800 - 800 * topic.hours_old
    ELSE Max(0, 2400 - 100 * topic.hours_old)

\* calculate_score, exactly: the value is the result divided by
\* 48000000 * max_article_count. Importance is in hundredths; recency and diversity
\* are in 1/4800, which holds hours_old / 6 and hours_old / 48 for every whole hour;
\* the penalty is in hundredths.
calculate_score(topic, category_counts, max_article_count) ==
    LET coverage == Min(topic.article_count, max_article_count)
        current_count == category_counts[CategoryOf(topic)]
        diversity == IF current_count = 0 THEN 4800 ELSE IF current_count = 1 THEN 2400 ELSE 0
        penalty == Min(5 * topic.routine, 30)
    IN  ( 40 * 48 * importance(topic) * max_article_count
          + 30 * recency(topic) * max_article_count
          + 20 * 4800 * coverage
          + 10 * diversity * max_article_count ) * (100 - penalty)

\* round(final_score, 3) in thousandths: the nearest, a tie to the even one.
Round3(score, max_article_count) ==
    LET d == 48000 * max_article_count
        q == score \div d
        r == score % d
    IN  IF 2 * r > d \/ (2 * r = d /\ q % 2 = 1) THEN q + 1 ELSE q

\* list.sort(key, reverse=True) on [key, item] pairs: descending by key, equal keys
\* in their old order.
RECURSIVE InsertDesc(_, _)
InsertDesc(q, x) ==
    IF q = <<>> THEN <<x>>
    ELSE IF Head(q).key >= x.key THEN <<Head(q)>> \o InsertDesc(Tail(q), x)
    ELSE <<x>> \o q

RECURSIVE SortDesc(_, _)
SortDesc(q, k) ==
    IF k = 0 THEN <<>> ELSE InsertDesc(SortDesc(q, k - 1), q[k])

Items(q) == [ k \in 1..Len(q) |-> q[k].item ]

\* "Second pass: select with diversity constraints".
RECURSIVE SelectTopics(_, _, _, _, _)
SelectTopics(scored_topics, k, result, category_counts, max_article_count) ==
    IF k > Len(scored_topics) \/ Len(result) >= TOP_STORIES_LIMIT THEN result
    ELSE LET topic == scored_topics[k]
             category == CategoryOf(topic)
             final_score == calculate_score(topic, category_counts, max_article_count)
         IN  IF category_counts[category] >= MAX_PER_CATEGORY
             THEN SelectTopics(scored_topics, k + 1, result, category_counts, max_article_count)
             ELSE SelectTopics(scored_topics, k + 1,
                               Append(result, [ id |-> topic.id, category |-> topic.category,
                                                ranking_score |-> Round3(final_score,
                                                                         max_article_count) ]),
                               [category_counts EXCEPT ![category] = @ + 1],
                               max_article_count)

get_top_topics_unsorted(ts) ==
    LET candidates == Candidates(ts)
    IN  IF candidates = <<>> THEN <<>>
        ELSE LET max_article_count == MaxArticleCount(candidates)
                 scored_topics ==
                     [ k \in 1..Len(candidates) |->
                         [ key |-> calculate_score(candidates[k], NoCounts(candidates),
                                                   max_article_count),
                           item |-> candidates[k] ] ]
             IN  SelectTopics(Items(SortDesc(scored_topics, Len(scored_topics))),
                              1, <<>>, NoCounts(candidates), max_article_count)

get_top_topics(ts) ==
    LET candidates == Candidates(ts)
    IN  IF candidates = <<>> THEN <<>>
        ELSE LET max_article_count == MaxArticleCount(candidates)
                 scored_topics ==
                     [ k \in 1..Len(candidates) |->
                         [ key |-> calculate_score(candidates[k], NoCounts(candidates),
                                                   max_article_count),
                           item |-> candidates[k] ] ]
                 result == SelectTopics(Items(SortDesc(scored_topics, Len(scored_topics))),
                                        1, <<>>, NoCounts(candidates), max_article_count)
                 keyed == [ k \in 1..Len(result) |->
                              [key |-> result[k].ranking_score, item |-> result[k]] ]
             IN  Items(SortDesc(keyed, Len(keyed)))

\* GET /topics/top.
GetTopTopics ==
    /\ ~ranked.returned
    /\ ranked' = [returned |-> TRUE, topics |-> get_top_topics(topics)]
    /\ UNCHANGED <<avars, corpus, clusters, topics, links, tpc, llm, grouping, groups, gread,
                   tcur, tsession, created, traised, requests>>

\* get_top_topics as a function of table topics: up to MaxTopics rows in insertion
\* order, the first `older` of them updated 12 hours ago and the rest 3 hours ago.
RankInit ==
    /\ AnalysisIdle
    /\ corpus = <<>>
    /\ clusters = NoClusters
    /\ \E shapes \in SeqsUpTo(RankShapes, MaxTopics) : \E older \in 0..Len(shapes) :
          topics = [ i \in 1..Len(shapes) |->
                       RankRow(i, shapes[i], IF i <= older THEN 12 ELSE 3) ]
    /\ links = <<>>
    /\ NoCall

RankNext == GetTopTopics

\* get_top_topics on one topic, or on two that differ in age only: the importance
\* is NULL, 0.0, 0.5 or 0.8, updated_at is a whole number of hours ago, and the row
\* stored first is not the one updated last.
ScoreShapes ==
    [ category : {"none", "World"}, importance_score : {Unset, 0, 50, 80},
      article_count : {1, 2}, routine : {0, 1} ]

ScoreInit ==
    /\ AnalysisIdle
    /\ corpus = <<>>
    /\ clusters = NoClusters
    /\ \E shape \in ScoreShapes : \E h1 \in 0..MaxHours : \E h2 \in 0..h1 :
          \/ topics = <<RankRow(1, shape, h1)>>
          \/ topics = <<RankRow(1, shape, h1), RankRow(2, shape, h2)>>
    /\ links = <<>>
    /\ NoCall

ScoreNext == GetTopTopics

ScoreSpec == ScoreInit /\ [][ScoreNext]_vars

RankSpec == RankInit /\ [][RankNext]_vars

\* get_top_topics on short tables of every make-up and on tables of more candidates
\* than the display cap: the rows updated 12 hours ago hold one shape and the rows
\* updated 3 hours ago another.
WalkShapes == { s \in ScoreShapes : s.importance_score \in {Unset, 80} /\ s.routine = 0 }

WalkInit ==
    /\ AnalysisIdle
    /\ corpus = <<>>
    /\ clusters = NoClusters
    /\ \/ \E shapes \in SeqsUpTo(WalkShapes, MaxWalk) : \E older \in 0..Len(shapes) :
             topics = [ i \in 1..Len(shapes) |->
                          RankRow(i, shapes[i], IF i <= older THEN 12 ELSE 3) ]
       \/ \E n \in (TOP_STORIES_LIMIT + 1)..(TOP_STORIES_LIMIT + MaxOverCap) :
             \E old, new \in WalkShapes : \E older \in 0..n :
                topics = [ i \in 1..n |->
                             IF i <= older THEN RankRow(i, old, 12) ELSE RankRow(i, new, 3) ]
    /\ links = <<>>
    /\ NoCall

WalkNext == GetTopTopics

WalkSpec == WalkInit /\ [][WalkNext]_vars

\* ------------------------------------------------------------------ properties
Stale(a) == a.content_hash # compute_content_hash(a)

RunStep(r) == pc'[r] # pc[r]

ByReanalyzeChanged == clock' = clock /\ pc' = pc

ContentUnchanged(i) ==
    /\ articles'[i].title = articles[i].title
    /\ articles'[i].description = articles[i].description
    /\ articles'[i].content = articles[i].content

AnalysisUnchanged(a, b) ==
    /\ a.llm_category = b.llm_category
    /\ a.llm_sentiment = b.llm_sentiment
    /\ a.llm_metadata = b.llm_metadata
    /\ a.content_hash = b.content_hash
    /\ a.analyzed_at = b.analyzed_at

AllowedTransitions ==
    { <<"pending", "processing">>, <<"processing", "completed">>,
      <<"processing", "failed">>, <<"completed", "pending">> }

C1_StatusDomain ==
    \A i \in 1..Len(articles) : articles[i].analysis_status \in Statuses

C1_Step ==
    \A i \in 1..Len(articles) :
        LET a == articles[i].analysis_status
            b == articles'[i].analysis_status
        IN  a # b =>
              /\ <<a, b>> \in AllowedTransitions
              /\ <<a, b>> = <<"completed", "pending">> =>
                    /\ ByReanalyzeChanged
                    /\ ContentUnchanged(i)
                    /\ Stale(articles[i])
              /\ <<a, b>> # <<"completed", "pending">> => \E r \in Runs : RunStep(r)

\* C1: every article's analysis_status is pending, processing, completed or failed;
\* every status change is pending->processing, processing->completed,
\* processing->failed (made by a step of analyze_pending) or completed->pending, and
\* completed->pending is made only by reanalyze_changed and only for an article
\* whose recomputed content hash differs from the stored content_hash.
C1_StatusMachine == [](C1_StatusDomain) /\ [][C1_Step]_vars

\* An article that reanalyze_changed sent back to pending after an analysis.
C1_Witness ==
    \E i \in 1..Len(articles) :
        articles[i].analysis_status = "pending" /\ articles[i].analyzed_at # 0

NonSkipped(r) == { k \in 1..Len(loaded[r]) : ~IsSkip(loaded[r][k]) }

C3_Step ==
    \A r \in Runs :
        /\ (pc[r] = "call" /\ RunStep(r) /\ results'[r].kind \in ErrorKinds) =>
              (pc'[r] = "apply" /\ raisedBy'[r] = "none")
        /\ (pc[r] = "apply" /\ RunStep(r) /\ results[r].kind \in ErrorKinds) =>
              /\ raisedBy'[r] \in {"none", "PersistenceError"}
              /\ raisedBy'[r] = "none" =>
                    /\ \A k \in NonSkipped(r) :
                          articles'[Batch(sel[r], pos[r])[k]].analysis_status = "failed"
                    /\ pc'[r] = IF pos[r] + BatchSize > Len(sel[r]) THEN "returned" ELSE "mark"
                    /\ stats'[r].processed = stats[r].processed + Len(loaded[r])
                    /\ stats'[r].failed = stats[r].failed + Cardinality(NonSkipped(r))

\* C3: when the completion-service call of a batch fails with a provider error or a
\* parse error, analyze_batch raises nothing, and the batch's apply step raises
\* nothing of its own (only a failing commit can): every article of the batch that is
\* not skipped ends failed, the counters count the batch, and the run goes on to the
\* next batch or returns the counters.
C3_BatchFailureContained == [][C3_Step]_vars

\* A run that went on to its second batch after the call of the first one failed.
C3_Witness ==
    \E r \in Runs :
        /\ pc[r] = "mark" /\ pos[r] > 1
        /\ results[r].kind = "provider_error"
        /\ stats[r].failed > 0
        /\ articles[sel[r][1]].analysis_status = "failed"

Matches(rs, j) == { k \in 1..Len(rs) : rs[k].mapping /\ rs[k].id = j }

FirstMatch(rs, j) == rs[CHOOSE k \in Matches(rs, j) : \A m \in Matches(rs, j) : k <= m]

C4_Step ==
    \A r \in Runs :
        (pc[r] = "apply" /\ RunStep(r) /\ raisedBy'[r] # "PersistenceError") =>
            /\ \A k \in NonSkipped(r) :
                  LET after == articles'[Batch(sel[r], pos[r])[k]]
                      rs == results[r].analyses
                  IN  IF Matches(rs, k - 1) # {}
                      THEN /\ after.analysis_status = "completed"
                           /\ after.llm_category = FirstMatch(rs, k - 1).category
                           /\ after.llm_sentiment = FirstMatch(rs, k - 1).sentiment
                           /\ after.llm_metadata = FirstMatch(rs, k - 1).topics
                      ELSE after.analysis_status = "failed"
            /\ \A i \in 1..Len(articles) :
                  ~InSeq(Batch(sel[r], pos[r]), i) => articles'[i] = articles[i]

\* C4: the response is applied by positional identifier: a non-skipped article at
\* batch position j ends completed with the category, sentiment and metadata of the
\* (first) response entry whose id is j, a non-skipped article without such an entry
\* ends failed, and no article outside the batch changes.
C4_PositionalApply == [][C4_Step]_vars

C5_Step ==
    \A r \in Runs :
        (pc[r] # "idle" /\ RunStep(r)) =>
            \A k \in 1..Len(sel[r]) :
                k < pos[r] => articles'[sel[r][k]] = articles[sel[r][k]]

\* C5: once a batch of a run is committed, no later step of the run (marking,
\* calling, applying a later batch, or an error that aborts the run) changes the rows
\* of that batch.
C5_BatchesCommitIndependently == [][C5_Step]_vars

\* A run aborted in its second batch, its first batch still as committed.
C5_Witness ==
    \E r \in Runs :
        /\ pc[r] = "raised" /\ pos[r] > 1
        /\ articles[sel[r][1]].analysis_status \in {"completed", "failed"}

\* C6: when a persistence error occurs while a batch is written, the error reaches
\* the caller and none of the batch's writes stay committed: no article of the batch
\* is left committed in status processing.
C6_NoHalfCommittedBatch ==
    \A r \in Runs :
        (pc[r] = "raised" /\ raisedBy[r] = "PersistenceError") =>
            \A k \in 1..Len(Batch(sel[r], pos[r])) :
                articles[Batch(sel[r], pos[r])[k]].analysis_status # "processing"

C7_Step ==
    \A r \in Runs :
        (pc[r] = "apply" /\ RunStep(r) /\ raisedBy'[r] # "PersistenceError") =>
            LET skips == { k \in 1..Len(loaded[r]) : IsSkip(loaded[r][k]) }
            IN  /\ \A k \in skips :
                      LET after == articles'[Batch(sel[r], pos[r])[k]]
                      IN  /\ after.analysis_status = "completed"
                          /\ AnalysisUnchanged(after, loaded[r][k])
                /\ skips # {} => stats'[r].skipped = stats[r].skipped + Cardinality(skips)

\* C7: a pending article whose analyzed_at is set and whose recomputed hash equals its
\* content_hash ends completed and is counted as skipped, with llm_category,
\* llm_sentiment, llm_metadata, content_hash and analyzed_at unchanged, whatever the
\* completion service returned for its batch.
C7_SkipIsIdempotent == [][C7_Step]_vars

\* C8: a completed article whose text a fetch changed (stored content_hash no longer
\* the hash of the text) is re-flagged pending, so that it is not still completed
\* with the stale hash when the next analysis run of the pipeline has returned.
C8_DriftReflagged ==
    \A r \in Runs :
        pc[r] = "returned" =>
            \A i \in 1..Len(articles) :
                ~(articles[i].analysis_status = "completed" /\ Stale(articles[i]))

Members(c) == { c.articles[k] : k \in 1..Len(c.articles) }

\* How often article id occurs in the clusters cs.
RECURSIVE Occurrences(_, _)
Occurrences(cs, id) ==
    IF cs = <<>> THEN 0
    ELSE Cardinality({ k \in 1..Len(Head(cs).articles) : Head(cs).articles[k] = id })
         + Occurrences(Tail(cs), id)

InWindow == { i \in 1..Len(corpus) : corpus[i].recent }

\* C9: cluster_articles partitions its input: every article fetched within the
\* lookback window occurs exactly once in the returned clusters and no other article
\* occurs, no cluster is empty, and there are at most as many clusters as articles.
C9_ClustersPartitionInput ==
    \A t \in Thresholds :
        clusters[t].returned =>
            LET cs == clusters[t].value
            IN  /\ \A i \in 1..Len(corpus) :
                      Occurrences(cs, i) = IF i \in InWindow THEN 1 ELSE 0
                /\ \A k \in 1..Len(cs) : cs[k].articles # <<>>
                /\ Len(cs) <= Cardinality(InWindow)

\* A result with a cluster of two articles for a corpus with an article outside the
\* window.
C9_Witness ==
    \E t \in Thresholds :
        /\ clusters[t].returned
        /\ \E k \in 1..Len(clusters[t].value) : Len(clusters[t].value[k].articles) >= 2
        /\ InWindow # 1..Len(corpus)

Lower(t1, t2) == t1[1] * t2[2] < t2[1] * t1[2]

BothReturned(t1, t2) == Lower(t1, t2) /\ clusters[t1].returned /\ clusters[t2].returned

\* C10 as stated: for thresholds t1 < t2, every cluster produced with t2 is contained
\* in a single cluster produced with t1.
C10_RaisingThresholdRefines ==
    \A t1, t2 \in Thresholds :
        BothReturned(t1, t2) =>
            \A k2 \in 1..Len(clusters[t2].value) :
                \E k1 \in 1..Len(clusters[t1].value) :
                    Members(clusters[t2].value[k2]) \subseteq Members(clusters[t1].value[k1])

SymDiff(A, B) == (A \ B) \cup (B \ A)

Earliest(S) == CHOOSE x \in S : \A y \in S : x <= y

\* The first cluster, in output order, in which the results x and y differ.
Diverges(x, y, c) ==
    /\ c <= Len(x) /\ c <= Len(y)
    /\ x[c] # y[c]
    /\ \A d \in 1..(c - 1) : x[d] = y[d]

\* C10, amended: for thresholds t1 < t2 the two results agree up to their first
\* difference, and there the lower threshold is the one that adds: if the results
\* differ, they have a first differing cluster, and the earliest article (in
\* published_at order) that is in one of the two clusters and not in the other is in
\* the cluster produced with t1.
C10_FirstDifferenceIsAdded ==
    \A t1, t2 \in Thresholds :
        (BothReturned(t1, t2) /\ clusters[t1].value # clusters[t2].value) =>
            \E c \in 1..Len(clusters[t1].value) :
                /\ Diverges(clusters[t1].value, clusters[t2].value, c)
                /\ LET m1 == Members(clusters[t1].value[c])
                       m2 == Members(clusters[t2].value[c])
                   IN  /\ SymDiff(m1, m2) # {}
                       /\ Earliest(SymDiff(m1, m2)) \in m1

\* Two thresholds whose results differ, the higher one producing a cluster that the
\* lower one's cluster at the same place does not contain.
C10_Witness ==
    \E t1, t2 \in Thresholds :
        /\ BothReturned(t1, t2)
        /\ \E c \in 1..Len(clusters[t1].value) :
              /\ Diverges(clusters[t1].value, clusters[t2].value, c)
              /\ ~(Members(clusters[t2].value[c]) \subseteq Members(clusters[t1].value[c]))

GroupingFailed == grouping \in {"provider_error", "parse_error", "not_mapping", "no_groups"}

TopicOf(id) == topics[CHOOSE k \in 1..Len(topics) : topics[k].id = id]

LinkedArticles(id) == { links[k].article_id : k \in { j \in 1..Len(links) : links[j].topic_id = id } }

\* C2: a create_topics call with LLM grouping whose grouping request raised a provider
\* error, returned malformed JSON or yielded no groups does not raise: it returns one
\* topic per cluster of cluster_articles over the window (the topic's article_count
\* and links being the cluster's articles), and at least one topic when an article
\* lies in the window.
C2_FallbackNeverRaises ==
    (llm.use /\ GroupingFailed /\ tpc \in {"returned", "raised"}) =>
        LET cs == cluster_articles(corpus, DefaultThreshold)
        IN  /\ tpc = "returned"
            /\ Len(created) = Len(cs)
            /\ \A k \in 1..Len(cs) :
                  /\ \E j \in 1..Len(topics) : topics[j].id = created[k]
                  /\ TopicOf(created[k]).article_count = Len(cs[k].articles)
                  /\ LinkedArticles(created[k]) = Members(cs[k])
            /\ InWindow # {} => created # <<>>

\* ------------------------------------------------------------------ ranking
\* The returned topics of a category, a missing category counted as 'General'.
ReturnedOf(c) == { k \in 1..Len(ranked.topics) : CategoryOf(ranked.topics[k]) = c }

ReturnedCategories == { CategoryOf(ranked.topics[k]) : k \in 1..Len(ranked.topics) }

\* C11: in every result of get_top_topics the number of returned topics is at most
\* TOP_STORIES_LIMIT, no category (a missing one counted as 'General') has more
\* than MAX_PER_CATEGORY returned topics, and every ranking score lies in [0, 1].
C11_RankingWithinCaps ==
    ranked.returned =>
        /\ Len(ranked.topics) <= TOP_STORIES_LIMIT
        /\ \A c \in ReturnedCategories : Cardinality(ReturnedOf(c)) <= MAX_PER_CATEGORY
        /\ \A k \in 1..Len(ranked.topics) :
              ranked.topics[k].ranking_score >= 0 /\ ranked.topics[k].ranking_score <= 1000

\* C12: get_top_topics returns at most 10 topics and at most 3 topics of any one
\* category, as its docstring says.
C12_DocumentedCaps ==
    ranked.returned =>
        /\ Len(ranked.topics) <= 10
        /\ \A c \in ReturnedCategories : Cardinality(ReturnedOf(c)) <= 3

\* ------------------------------------------------------------------ configuration
\* C13: a configuration error (credentials missing when the client is constructed)
\* during a run is raised to the caller of analyze_pending: the call step of the
\* batch ends the run with an exception, and the batch's articles are not failed.
C13_Step ==
    \A r \in Runs :
        (pc[r] = "call" /\ RunStep(r) /\ results'[r].kind = "config_error") =>
            /\ pc'[r] = "raised"
            /\ raisedBy'[r] # "none"

C13_ConfigErrorRaised == [][C13_Step]_vars

\* ------------------------------------------------------------------ concurrent runs
\* The articles both runs are processing: in the current batch of each, after its
\* claim and before its results are committed.
Processing(r) ==
    IF pc[r] \in {"call", "apply"}
    THEN { Batch(sel[r], pos[r])[k] : k \in 1..Len(Batch(sel[r], pos[r])) }
    ELSE {}

\* C14: with two analysis runs active, the pending->processing claim of
\* analyze_pending is no conditional update: the claim step of a run sets every
\* article of its batch to processing whatever status another run has given it
\* meanwhile, so an article both runs selected is processed by both.
C14_Step ==
    \A r \in Jobs :
        (pc[r] = "mark" /\ pc'[r] = "call") =>
            \A k \in 1..Len(Batch(sel[r], pos[r])) :
                articles'[Batch(sel[r], pos[r])[k]].analysis_status = "processing"

C14_ClaimIsUnconditional == [][C14_Step]_vars

\* Double-processing: an article is in the batch that each of the two runs is
\* processing.
C14_Witness == Processing(1) \cap Processing(2) # {}

\* ------------------------------------------------------------------ topics and links
\* The links of table article_topics that reference topic id.
LinksOf(id) == { j \in 1..Len(links) : links[j].topic_id = id }

TopicIds == { topics[k].id : k \in 1..Len(topics) }

\* C15: after any sequence of create_topics (keyword path and
\* create_topics_from_groups), refresh_topics and pruning steps, the article_count
\* of every topic of the table is the number of links that reference the topic.
C15_ArticleCountIsLinkCount ==
    \A k \in 1..Len(topics) : topics[k].article_count = Cardinality(LinksOf(topics[k].id))

\* A call has returned and the table holds a topic of create_topics_from_groups and
\* a topic of the keyword path with two articles, after the pruning of an earlier
\* call deleted topic 1.
C15_Witness ==
    /\ tpc = "returned"
    /\ 1 \notin TopicIds
    /\ \E j \in 1..Len(topics) : topics[j].category = "group"
    /\ \E k \in 1..Len(topics) : topics[k].category = "none" /\ topics[k].article_count = 2

\* C16: no two links share (article_id, topic_id), whatever the grouping response
\* lists; an article can be linked to several topics.
C16_LinksUnique ==
    \A i \in 1..Len(links) : \A j \in 1..Len(links) :
        (links[i].article_id = links[j].article_id /\ links[i].topic_id = links[j].topic_id)
            => i = j

\* A group of the response lists one article twice and the call raised, while an
\* article is linked to two topics of an earlier call.
C16_Witness ==
    /\ tpc = "raised"
    /\ \E k \in 1..Len(groups) : groups[k].articles[1] = groups[k].articles[2]
    /\ \E i \in 1..Len(links) : \E j \in 1..Len(links) :
          links[i].article_id = links[j].article_id /\ links[i].topic_id # links[j].topic_id

\* create_topics is past "Clear old topics".
InRun == tpc \notin {"idle", "refresh"}

Dangling == { j \in 1..Len(links) : links[j].topic_id \notin TopicIds }

Rows(q) == { q[k] : k \in 1..Len(q) }

\* C17: the first step of every call of create_topics deletes the topics created
\* more than 48 hours earlier and their links, and nothing else, before the call
\* groups or clusters; from then to the end of the call no topic of the table is
\* older than 48 hours and no link references a deleted topic.
C17_Step ==
    /\ (~InRun /\ InRun') =>
          /\ Rows(topics') = { t \in Rows(topics) : ~t.old }
          /\ Rows(links') =
                { l \in Rows(links) :
                    ~\E t \in Rows(topics) : t.id = l.topic_id /\ t.old }
          /\ groups' = <<>> /\ created' = <<>> /\ ~clusters'[DefaultThreshold].returned
    /\ InRun' => (\A t \in Rows(topics') : ~t.old) /\ Dangling' = {}

C17_PrunedBeforeGrouping == [][C17_Step]_vars

\* A call on the LLM path has returned; its pruning deleted topic 1 and kept a
\* topic of the keyword path, which the call did not create.
C17_Witness ==
    /\ tpc = "returned"
    /\ grouping = "groups"
    /\ created # <<>>
    /\ 1 \notin TopicIds
    /\ \E k \in 1..Len(topics) :
          topics[k].category = "none" /\ topics[k].id \notin Rows(created)

\* ------------------------------------------------------------------ semantic groups
\* C18: every group group_articles returns holds only articles of its query
\* (completed, fetched in the window) and at least min_group_size articles.
C18_GroupsWithinInput ==
    grouping = "groups" =>
        \A k \in 1..Len(groups) :
            /\ Rows(groups[k].articles) \subseteq Rows(CompletedIds(corpus, 1))
            /\ Cardinality(Rows(groups[k].articles)) >= min_group_size

\* C19: in one grouping run no article is in two groups, and
\* create_topics_from_groups links no article to two of the topics it creates.
C19_OneGroupPerArticle ==
    /\ grouping = "groups" =>
          \A i \in 1..Len(groups) : \A j \in 1..Len(groups) :
              i # j => Rows(groups[i].articles) \cap Rows(groups[j].articles) = {}
    /\ (grouping = "groups" /\ tpc = "returned") =>
          \A i \in 1..Len(links) : \A j \in 1..Len(links) :
              ( /\ links[i].topic_id \in Rows(created)
                /\ links[j].topic_id \in Rows(created)
                /\ links[i].article_id = links[j].article_id )
                  => links[i].topic_id = links[j].topic_id

\* C20: for one set of grouped articles at most one title/summary request is sent
\* to the completion service.
C20_OneTitleRequest == requests <= 1

\* ------------------------------------------------------------------ fetch_feed
Guids(arts) == { arts[i].guid : i \in 1..Len(arts) }

WithGuid(arts, g) == { i \in 1..Len(arts) : arts[i].guid = g }

\* C21: there is at most one article per guid. A call of fetch_feed keeps the
\* articles it found, adds exactly one article for every guid of the feed that was
\* not stored, none for a guid that was, and returns as new_count the number of
\* articles it added.
C21_Step ==
    clock' # clock =>
        /\ Len(articles') = Len(articles) + fetched'.new_count
        /\ \A i \in 1..Len(articles) : articles'[i].guid = articles[i].guid
        /\ fetched'.new_count = Cardinality(Guids(fetched'.entries) \ Guids(articles))
        /\ \A g \in Guids(fetched'.entries) \cup Guids(articles) :
              Cardinality(WithGuid(articles', g)) = 1

C21_OneArticlePerGuid == [][C21_Step]_vars

\* A call returned new_count = 1 for a feed of two entries: the guid of one was
\* stored before the call, the other one's is that of the article added last.
C21_Witness ==
    /\ Len(fetched.entries) = 2
    /\ fetched.new_count = 1
    /\ Len(articles) >= 2
    /\ \E k \in 1..2 : \E i \in 1..(Len(articles) - 1) :
          /\ fetched.entries[k].guid = articles[i].guid
          /\ fetched.entries[3 - k].guid = articles[Len(articles)].guid

\* ------------------------------------------------------------------ reanalyze_changed
Flagged(arts) ==
    { i \in 1..Len(arts) : arts[i].analysis_status = "completed" /\ Stale(arts[i]) }

\* C22: a call of reanalyze_changed sets to pending exactly the completed articles
\* whose recomputed hash differs from content_hash and returns their number; every
\* other article, and every field but analysis_status, is as before. A call that
\* follows a call with no fetch in between returns 0 and changes nothing.
C22_Step ==
    clock' = clock =>
        /\ reflagged' = [count |-> Cardinality(Flagged(articles)), at |-> clock]
        /\ Len(articles') = Len(articles)
        /\ \A i \in 1..Len(articles) :
              /\ articles'[i] =
                    [articles[i] EXCEPT !.analysis_status = articles'[i].analysis_status]
              /\ articles'[i].analysis_status =
                    IF i \in Flagged(articles) THEN "pending"
                    ELSE articles[i].analysis_status
        /\ reflagged.at = clock => (reflagged'.count = 0 /\ articles' = articles)

C22_ReflagsExactlyTheStale == [][C22_Step]_vars

\* A call flagged one of two completed articles and left the other as it was.
C22_Witness ==
    /\ reflagged = [count |-> 1, at |-> clock]
    /\ \E i \in 1..Len(articles) :
          articles[i].analysis_status = "pending" /\ articles[i].analyzed_at # 0
                                                 /\ Stale(articles[i])
    /\ \E i \in 1..Len(articles) : articles[i].analysis_status = "completed"

\* ------------------------------------------------------------------ score factors
\* C23: the importance factor of the ranking score is the stored importance_score
\* whenever one is stored, a stored 0 included, and 0.5 only when none is stored.
C23_StoredImportanceIsUsed ==
    ranked.returned =>
        \A k \in 1..Len(topics) :
            importance(topics[k]) =
                IF topics[k].importance_score = Unset THEN 50
                ELSE topics[k].importance_score

\* C30: of two topics, the one updated earlier never gets a higher recency factor
\* than the one updated later.
C30_RecencyNonIncreasing ==
    ranked.returned =>
        \A i \in 1..Len(topics) : \A j \in 1..Len(topics) :
            topics[i].hours_old >= topics[j].hours_old =>
                recency(topics[i]) <= recency(topics[j])

\* The walk of get_top_topics, told from the candidates alone. BaseScores: the base
\* score of every candidate. WalkRanks: how many candidates are walked before each
\* one, a candidate going before another when its base score is higher, or equal
\* with it the earlier candidate. FinalScores: the score of every candidate from
\* the category counts of the accepted candidates walked before it.
RECURSIVE Tabulated(_, _)
Tabulated(f, n) == IF n = 0 THEN <<>> ELSE Append(Tabulated(f, n - 1), f[n])

BaseScores(cands) ==
    LET m == MaxArticleCount(cands)
        none == NoCounts(cands)
    IN  Tabulated([ i \in 1..Len(cands) |-> calculate_score(cands[i], none, m) ],
                  Len(cands))

WalkRanks(cands, base) ==
    Tabulated([ i \in 1..Len(cands) |->
                  Cardinality({ j \in 1..Len(cands) :
                                  base[j] > base[i] \/ (base[j] = base[i] /\ j < i) }) ],
              Len(cands))

FinalScores(cands, rank) ==
    LET m == MaxArticleCount(cands)
        none == NoCounts(cands)
    IN  Tabulated([ i \in 1..Len(cands) |->
                      calculate_score(cands[i],
                                      [ c \in DOMAIN none |->
                                          Cardinality({ j \in 1..Len(cands) :
                                                          /\ rank[j] < rank[i]
                                                          /\ rank[j] < TOP_STORIES_LIMIT
                                                          /\ CategoryOf(cands[j]) = c }) ],
                                      m) ],
                  Len(cands))

\* C24: get_top_topics returns exactly the first TOP_STORIES_LIMIT candidates in
\* descending order of base score (all of them when there are fewer), each with
\* ranking_score = round(final score, 3) where the final score is computed from the
\* category counts of the topics accepted before it; the returned list is in
\* descending order of ranking_score, and no final score exceeds the topic's base
\* score.
C24_WalkByBaseSortByFinal ==
    ranked.returned =>
        LET cands == Candidates(topics)
            out == ranked.topics
        IN  IF cands = <<>> THEN out = <<>>
            ELSE LET m == MaxArticleCount(cands)
                     base == BaseScores(cands)
                     rank == WalkRanks(cands, base)
                     final == FinalScores(cands, rank)
                     accepted == { i \in 1..Len(cands) : rank[i] < TOP_STORIES_LIMIT }
                 IN  /\ Len(out) = Cardinality(accepted)
                     /\ Len(out) = Min(TOP_STORIES_LIMIT, Len(cands))
                     /\ \A i \in accepted : \E k \in 1..Len(out) :
                           /\ out[k].id = cands[i].id
                           /\ out[k].ranking_score = Round3(final[i], m)
                           /\ out[k].ranking_score <= Round3(base[i], m)
                     /\ \A i \in accepted : final[i] <= base[i]
                     /\ \A k \in 1..(Len(out) - 1) :
                           out[k].ranking_score >= out[k + 1].ranking_score

\* More candidates than the cap, a final score below the base score, and a topic
\* walked later but returned earlier than another.
C24_Witness ==
    /\ ranked.returned
    /\ Len(Candidates(topics)) > TOP_STORIES_LIMIT
    /\ Len(ranked.topics) = TOP_STORIES_LIMIT
    /\ LET cands == Candidates(topics)
           base == BaseScores(cands)
           rank == WalkRanks(cands, base)
           final == FinalScores(cands, rank)
       IN  /\ \E i \in 1..Len(cands) : rank[i] < TOP_STORIES_LIMIT /\ final[i] < base[i]
           /\ \E i, j \in 1..Len(cands) : \E k, l \in 1..Len(ranked.topics) :
                 /\ rank[i] < rank[j]
                 /\ ranked.topics[k].id = cands[i].id
                 /\ ranked.topics[l].id = cands[j].id
                 /\ l < k

\* C25: when analyze_pending has returned, every article it selected is completed
\* or failed.
C25_SelectedAreSettled ==
    \A r \in Runs :
        pc[r] = "returned" =>
            \A k \in 1..Len(sel[r]) :
                articles[sel[r][k]].analysis_status \in {"completed", "failed"}

\* A run over two batches has returned with a completed and a failed article.
C25_Witness ==
    \E r \in Runs :
        /\ pc[r] = "returned"
        /\ Len(sel[r]) > BatchSize
        /\ \E k, l \in 1..Len(sel[r]) :
              /\ articles[sel[r][k]].analysis_status = "completed"
              /\ articles[sel[r][l]].analysis_status = "failed"

\* C26: the counters analyze_pending returns satisfy processed = succeeded + failed
\* + skipped, processed is the number of pending articles the run selected, which
\* is the number of pending articles at the query or the limit if that is less, and
\* processed is at most the limit.
C26_Step ==
    \A r \in Runs :
        /\ (pc[r] = "idle" /\ pc'[r] # "idle") =>
              Len(sel'[r]) = Min(limits'[r],
                                 Cardinality({ i \in 1..Len(articles) :
                                                 articles[i].analysis_status = "pending" }))
        /\ pc'[r] = "returned" =>
              /\ stats'[r].processed
                    = stats'[r].succeeded + stats'[r].failed + stats'[r].skipped
              /\ stats'[r].processed = Len(sel'[r])
              /\ stats'[r].processed <= limits'[r]

C26_CountersAddUp == [][C26_Step]_vars

\* A run with limit 2 on three pending articles has returned processed = 2 with one
\* article skipped, and the other succeeded or failed.
C26_Witness ==
    \E r \in Runs :
        /\ pc[r] = "returned"
        /\ limits[r] = 2
        /\ Cardinality({ i \in 1..Len(articles) : articles[i].analysis_status = "pending" }) = 1
        /\ stats[r].processed = 2
        /\ stats[r].skipped = 1

PendingGuid(g) ==
    \E i \in 1..Len(articles) : articles[i].guid = g /\ articles[i].analysis_status = "pending"

\* C27: under repeated analysis runs with a completion service that answers every
\* request completely, every pending article eventually leaves status pending, also
\* when new articles keep being fetched between the runs.
C27_PendingEventuallyAnalyzed ==
    \A g \in 1..MaxGuid : PendingGuid(g) ~> ~PendingGuid(g)

\* The topics with a link to an article of the window, and the links to the
\* articles of the window: what calls of create_topics over these articles stored.
TopicsOfWindow ==
    { t \in TopicIds : \E j \in 1..Len(links) :
        links[j].topic_id = t /\ links[j].article_id \in 1..Len(corpus) }

LinksOfWindow == { j \in 1..Len(links) : links[j].article_id \in 1..Len(corpus) }

\* C28: topics are replaced, not accumulated: when a call of create_topics has
\* returned, the topics and links stored for the (unchanged) articles of the window
\* are the ones this call created, as many as after a single call, also when an
\* earlier call ran less than 48 hours before.
C28_TopicsReplaced ==
    (tpc = "returned" /\ created # <<>>) =>
        /\ TopicsOfWindow = Rows(created)
        /\ \A j \in LinksOfWindow : links[j].topic_id \in Rows(created)

\* C29: every link's relevance_score lies in [0, 1], and within a topic it is
\* strictly decreasing in the position of the article, for every size of cluster
\* or group.
C29_RelevanceInUnitInterval ==
    /\ \A j \in 1..Len(links) :
          links[j].relevance_score >= 0 /\ links[j].relevance_score <= 1000
    /\ \A j \in 1..Len(links) : \A k \in (j + 1)..Len(links) :
          links[j].topic_id = links[k].topic_id =>
              links[j].relevance_score > links[k].relevance_score

====
